---- MODULE Spec2Model ----
(***************************************************************************)
(* http-market-app: a store process (my-store.js) with its file-locked     *)
(* ledger, purchase handler and registration client, and the registry      *)
(* process (central-server.js, in its single-product and multi-product     *)
(* versions).  Every action is one run of the JavaScript event loop: the   *)
(* code from one await on file or network I/O to the next.                 *)
(***************************************************************************)
EXTENDS Integers, Sequences, FiniteSets, TLC

(***************************************************************************)
(* Bounds of the model                                                     *)
(***************************************************************************)
\* number of buy requests the clients send during one run of the store
NumReqs == 2
\* the number of clients of the registry besides the store
NumClients == 2
\* how many times the store process is killed and started again
MaxRestarts == 1

Reqs == 1..NumReqs

(***************************************************************************)
(* Program constants                                                       *)
(***************************************************************************)
\* my-store.js:26  const PORT = process.env.PORT || 8082
PORT == 8082
\* my-store.js:37  let myIpAddress = '127.0.0.1'
myIpAddress == "127.0.0.1"
\* my-store.js:63  capitalYen: 100000000
InitialCapitalYen == 100000000
\* my-store.js:64  procurementPts: 100000000
InitialProcurementPts == 100000000
\* my-store.js:415 const productName = 'りんごジュース'
DemoProductName == "ringo-juice"
\* my-store.js:416 const priceYen = 120
DemoPriceYen == 120

(***************************************************************************)
(* Files.  A file is a sequence of length 0 (the file does not exist) or   *)
(* 1 (its parsed JSON content).                                            *)
(***************************************************************************)
NoFile == <<>>
FileOf(content) == <<content>>
Exists(file) == Len(file) = 1
\* db.js readJSON: the parsed content; it throws when the file is missing
readJSON(file) == [ok |-> Exists(file), data |-> file]
\* a read that fails although the file exists (an I/O error, a torn file)
ReadError == [ok |-> FALSE, data |-> <<>>]

(***************************************************************************)
(* Ledger (assets.json)                                                    *)
(***************************************************************************)
createInitialAssets ==
    [capitalYen |-> InitialCapitalYen,
     procurementPts |-> InitialProcurementPts,
     inventory |-> <<>>,
     collection |-> <<>>]

createInitialTransactions == <<>>

\* Array.prototype.find on the inventory: index of the first entry of the
\* product, 0 when there is none
findItem(inventory, name) ==
    IF \E i \in 1..Len(inventory) : inventory[i].product = name
    THEN CHOOSE i \in 1..Len(inventory) :
            /\ inventory[i].product = name
            /\ \A j \in 1..(i - 1) : inventory[j].product # name
    ELSE 0

\* Math.floor(a / b) for a >= 0, b > 0
floorDiv(a, b) == a \div b

\* defineQuantity rounding up
defineQuantityCeil(assets, priceYen) ==
    floorDiv(assets.procurementPts + priceYen - 1, priceYen)

\* the quantity and the consumed points defineProduct computes (lines 212-215)
defineQuantity(assets, priceYen) == floorDiv(assets.procurementPts, priceYen)
defineConsumedPts(assets, priceYen) == defineQuantity(assets, priceYen) * priceYen

\* the update function defineProduct passes to updateAssets (lines 218-231)
defineUpdateFn(assets, name, quantity, consumedPts) ==
    [assets EXCEPT !.procurementPts = @ - consumedPts,
                   !.inventory = << [product |-> name, qty |-> quantity] >>]

\* purchaseUpdateFn without its stock check
purchaseUpdateFnNoCheck(assets, name, quantity, priceYen) ==
    LET i == findItem(assets.inventory, name) IN
    IF i = 0
    THEN [ok |-> FALSE, assets |-> assets]
    ELSE [ok |-> TRUE,
          assets |-> [assets EXCEPT !.inventory[i].qty = @ - quantity,
                                    !.capitalYen = @ + priceYen * quantity]]

\* purchaseUpdateFn adding the unit price, not the total, to the capital
purchaseUpdateFnUnitPrice(assets, name, quantity, priceYen) ==
    LET i == findItem(assets.inventory, name) IN
    IF i = 0 \/ assets.inventory[i].qty < quantity
    THEN [ok |-> FALSE, assets |-> assets]
    ELSE [ok |-> TRUE,
          assets |-> [assets EXCEPT !.inventory[i].qty = @ - quantity,
                                    !.capitalYen = @ + priceYen]]

\* purchaseUpdateFn with a stock check that is off by one
purchaseUpdateFnOffByOne(assets, name, quantity, priceYen) ==
    LET i == findItem(assets.inventory, name) IN
    IF i = 0 \/ assets.inventory[i].qty + 1 < quantity
    THEN [ok |-> FALSE, assets |-> assets]
    ELSE [ok |-> TRUE,
          assets |-> [assets EXCEPT !.inventory[i].qty = @ - quantity,
                                    !.capitalYen = @ + priceYen * quantity]]

\* purchaseUpdateFn handing the goods over without booking the price
purchaseUpdateFnKeepsCapital(assets, name, quantity, priceYen) ==
    LET i == findItem(assets.inventory, name) IN
    IF i = 0 \/ assets.inventory[i].qty < quantity
    THEN [ok |-> FALSE, assets |-> assets]
    ELSE [ok |-> TRUE,
          assets |-> [assets EXCEPT !.inventory[i].qty = @ - quantity]]

\* purchaseUpdateFn paying the quantity out of the procurement points too
purchaseUpdateFnSpendsPts(assets, name, quantity, priceYen) ==
    LET i == findItem(assets.inventory, name) IN
    IF i = 0 \/ assets.inventory[i].qty < quantity
    THEN [ok |-> FALSE, assets |-> assets]
    ELSE [ok |-> TRUE,
          assets |-> [assets EXCEPT !.inventory[i].qty = @ - quantity,
                                    !.capitalYen = @ + priceYen * quantity,
                                    !.procurementPts = @ - quantity]]

\* the update function processPurchase passes to updateAssets (lines 259-276);
\* ok = FALSE when it throws '在庫が不足しています'
purchaseUpdateFn(assets, name, quantity, priceYen) ==
    LET i == findItem(assets.inventory, name) IN
    IF i = 0 \/ assets.inventory[i].qty < quantity
    THEN [ok |-> FALSE, assets |-> assets]
    ELSE [ok |-> TRUE,
          assets |-> [assets EXCEPT !.inventory[i].qty = @ - quantity,
                                    !.capitalYen = @ + priceYen * quantity]]

\* the quantity on hand of a product in a ledger file, 0 when the file or the
\* entry is missing
stockOf(file, name) ==
    IF Exists(file) /\ findItem(file[1].inventory, name) > 0
    THEN file[1].inventory[findItem(file[1].inventory, name)].qty
    ELSE 0

\* an open without the exclusive flag: it never throws
openSyncNotExclusive(lock) == [ok |-> TRUE, lock |-> TRUE]

\* an open whose failure runs the release of the lock file
openSyncReleasing(lock) == [ok |-> ~lock, lock |-> ~lock]

\* fs.openSync(ASSETS_LOCK_FILE, 'wx'): creates the lock file, throws when
\* it exists already
openSyncWx(lock) == [ok |-> ~lock, lock |-> TRUE]


(***************************************************************************)
(* State                                                                   *)
(***************************************************************************)
VARIABLES
    \* the store's files (market-app/data)
    assetsFile,         \* assets.json
    transactionsFile,   \* transactions.json
    productFile,        \* product.json
    lockFile,           \* assets.lock exists
    \* the store process
    serverState,        \* let serverState
    myProduct,          \* let myProduct: <<>> is null, else <<product>>
    initPc,             \* where initializeServer and its listen callback are
    initLocal,          \* the locals of defineProduct during start-up
    syncTimer,          \* setInterval(syncMarkets, ...) has been called
    activeStock,        \* history: the stock on hand when the store became ACTIVE
    req,                \* the buy requests, by request id
    \* the registry process
    registryKind,       \* which central-server.js is listening
    marketsFile,        \* markets.json
    call,               \* the POST /register requests, by caller
    clock,              \* the registry's Date, as a counter
    sweep,              \* the health sweep in progress (performHealthChecks)
    listing,            \* the response of the step that answered GET /markets
    \* a handler's input validation, applied to one request body
    probe,
    \* how many times the store process has been killed and started again
    restarts

storeFiles == <<assetsFile, transactionsFile, productFile, lockFile>>
storeProc == <<serverState, myProduct, initPc, initLocal, syncTimer, activeStock>>
registryVars == <<registryKind, marketsFile, call, clock, sweep, listing>>
vars == <<storeFiles, storeProc, req, registryVars, probe, restarts>>

(***************************************************************************)
(* Requests                                                                *)
(***************************************************************************)
\* the stock of a fresh store after defineProduct
DemoQuantity == floorDiv(InitialProcurementPts, DemoPriceYen)
\* the bodies {product, qty} a client may send to /buy: in stock, the whole
\* stock, more than the stock, another product, no product, no or a
\* negative quantity
BuyInputs ==
    {[product |-> DemoProductName, qty |-> 1],
     [product |-> DemoProductName, qty |-> 2],
     [product |-> DemoProductName, qty |-> DemoQuantity],
     [product |-> DemoProductName, qty |-> DemoQuantity + 1],
     [product |-> DemoProductName, qty |-> 0],
     [product |-> DemoProductName, qty |-> -1],
     [product |-> "other", qty |-> 1],
     [product |-> "", qty |-> 1]}

NoLedger == <<>>

IdleReq ==
    [pc |-> "idle", product |-> "", qty |-> 0, buyer |-> 0,
     status |-> 0, error |-> "", totalPrice |-> 0,
     assets |-> NoLedger, log |-> <<>>,
     \* history: the ledger file when updateAssets took the lock, and whether
     \* the request's ledger mutation was persisted
     pre |-> NoLedger, committed |-> FALSE]

\* the clients that post to /register besides the store
ClientNames == <<"client1", "client2", "client3">>
Clients == {ClientNames[i] : i \in 1..NumClients}
Callers == {"store"} \cup Clients
NoBody == [fields |-> {}]
IdleCall ==
    [pc |-> "idle", body |-> NoBody, markets |-> <<>>, status |-> 0]

\* the request bodies of POST /register: the legacy shape
\* {ip, port, product, priceYen} and the shape {ip, port, products: [...]}
legacyBody(ip, port, product, priceYen, priceType) ==
    [fields |-> {"ip", "port", "product", "priceYen"},
     ip |-> ip, port |-> port, product |-> product,
     priceYen |-> priceYen, priceType |-> priceType]
multiBody(ip, port, products) ==
    [fields |-> {"ip", "port", "products"},
     ip |-> ip, port |-> port, products |-> products, productsIsArray |-> TRUE]
\* one entry {product, priceYen} of products, and the entry null
productItem(product, priceYen, priceType) ==
    [product |-> product, priceYen |-> priceYen, priceType |-> priceType]
NullItem == [isNull |-> TRUE]

\* well-formed requests: two addresses, and two catalogs for the first
WellFormedLegacy ==
    {legacyBody("10.0.0.1", 8082, "tea", 100, "number"),
     legacyBody("10.0.0.1", 8082, "tea", 150, "number"),
     legacyBody("10.0.0.2", 8082, "tea", 100, "number")}
WellFormedMulti ==
    {multiBody("10.0.0.1", 8082, <<productItem("tea", 100, "number")>>),
     multiBody("10.0.0.1", 8082, <<productItem("tea", 150, "number"),
                                   productItem("cake", 300, "number")>>),
     multiBody("10.0.0.2", 8082, <<productItem("tea", 100, "number")>>)}
\* malformed requests: an empty address part, no product, a price that is
\* zero, negative or a string, an entry that is null
MalformedLegacy ==
    {legacyBody("", 8082, "tea", 100, "number"),
     legacyBody("10.0.0.1", 0, "tea", 100, "number"),
     legacyBody("10.0.0.1", 8082, "tea", 0, "number"),
     legacyBody("10.0.0.1", 8082, "tea", -5, "number"),
     legacyBody("10.0.0.1", 8082, "tea", 100, "string")}
MalformedMulti ==
    {multiBody("", 8082, <<productItem("tea", 100, "number")>>),
     multiBody("10.0.0.1", 0, <<productItem("tea", 100, "number")>>),
     multiBody("10.0.0.1", 8082, <<>>),
     multiBody("10.0.0.1", 8082, <<productItem("tea", 0, "number")>>),
     multiBody("10.0.0.1", 8082, <<productItem("tea", 100, "number"),
                                   productItem("cake", -5, "number")>>),
     multiBody("10.0.0.1", 8082, <<productItem("tea", 100, "string")>>),
     multiBody("10.0.0.1", 8082, <<productItem("tea", 100, "number"), NullItem>>)}
RegisterInputs ==
    WellFormedLegacy \cup WellFormedMulti \cup MalformedLegacy \cup MalformedMulti

\* no health sweep is running; markets is the snapshot read by
\* performHealthChecks and health what each probe came to (-1 while it is
\* pending)
IdleSweep == [pc |-> "idle", markets |-> <<>>, health |-> <<>>,
              \* history: the addresses the last committed sweep switched from
              \* OFFLINE to ONLINE
              recovered |-> {}]
\* the step taken did not answer a GET /markets
NoListing == [status |-> 0, data |-> <<>>]
NoProbe == [pc |-> "none"]

NoLocal == [quantity |-> 0, consumedPts |-> 0, assets |-> NoLedger]

InitState ==
    /\ assetsFile = NoFile
    /\ transactionsFile = NoFile
    /\ productFile = NoFile
    /\ lockFile = FALSE
    /\ serverState = "INIT"
    /\ myProduct = <<>>
    /\ initPc = "loadAssets"
    /\ initLocal = NoLocal
    /\ syncTimer = FALSE
    /\ activeStock = 0
    /\ req = [r \in Reqs |-> IdleReq]
    /\ registryKind \in {"single", "multi"}
    /\ marketsFile = NoFile
    /\ call = [c \in Callers |-> IdleCall]
    /\ clock = 0
    /\ sweep = IdleSweep
    /\ listing = NoListing
    /\ restarts = 0

Init == InitState /\ probe = NoProbe

(***************************************************************************)
(* Store start-up: initializeServer (lines 392-444)                        *)
(***************************************************************************)
\* line 403, loadAssets: readJSON
InitLoadAssetsOn(rd) ==
    /\ initPc = "loadAssets"
    /\ initPc' = IF rd.ok THEN "loadTransactions" ELSE "createAssets"
    /\ UNCHANGED <<probe, restarts, storeFiles, serverState, myProduct, initLocal, syncTimer,
                   req, registryVars, activeStock>>

InitLoadAssets == InitLoadAssetsOn(readJSON(assetsFile))

\* loadAssets' catch: writeJSON(ASSETS_FILE, initialAssets)
InitCreateAssets ==
    /\ initPc = "createAssets"
    /\ assetsFile' = FileOf(createInitialAssets)
    /\ initPc' = "loadTransactions"
    /\ UNCHANGED <<probe, restarts, transactionsFile, productFile, lockFile, serverState, myProduct,
                   initLocal, syncTimer, req, registryVars,
                   activeStock>>

\* line 404, loadTransactions: readJSON
InitLoadTransactionsOn(rd) ==
    /\ initPc = "loadTransactions"
    /\ initPc' = IF rd.ok THEN "loadProduct" ELSE "createTransactions"
    /\ UNCHANGED <<probe, restarts, storeFiles, serverState, myProduct, initLocal, syncTimer,
                   req, registryVars, activeStock>>

InitLoadTransactions == InitLoadTransactionsOn(readJSON(transactionsFile))

\* loadTransactions' catch: writeJSON(TRANSACTIONS_FILE, [])
InitCreateTransactions ==
    /\ initPc = "createTransactions"
    /\ transactionsFile' = FileOf(createInitialTransactions)
    /\ initPc' = "loadProduct"
    /\ UNCHANGED <<probe, restarts, assetsFile, productFile, lockFile, serverState, myProduct,
                   initLocal, syncTimer, req, registryVars,
                   activeStock>>

\* lines 407-422: loadProduct; a product on file configures the store and
\* app.listen is called, none starts defineProduct (its loadAssets, line 209)
InitLoadProductOn(rd) ==
    /\ initPc = "loadProduct"
    /\ IF rd.ok
       THEN /\ myProduct' = rd.data
            /\ serverState' = "CONFIGURED"
            /\ initPc' = "listening"
       ELSE /\ myProduct' = <<>>
            /\ serverState' = serverState
            /\ initPc' = "defineLoadAssets"
    /\ UNCHANGED <<probe, restarts, storeFiles, initLocal, syncTimer, req, registryVars,
                   activeStock>>

InitLoadProduct == InitLoadProductOn(readJSON(productFile))

\* defineProduct, lines 209-218: loadAssets has read the ledger `rd`; the
\* quantity and the consumed points are computed and updateAssets takes the
\* lock (line 148).  A lock that exists makes updateAssets throw, and
\* initializeServer's catch ends the process (line 442).
DefineCompute(assets) ==
    LET quantity == defineQuantity(assets, DemoPriceYen)
        consumedPts == defineConsumedPts(assets, DemoPriceYen)
        lk == openSyncWx(lockFile)
    IN  /\ initLocal' = [quantity |-> quantity, consumedPts |-> consumedPts,
                         assets |-> NoLedger]
        /\ IF lk.ok
           THEN lockFile' = lk.lock /\ initPc' = "defineCsLoad"
           ELSE lockFile' = lk.lock /\ initPc' = "exited"

DefineLoadAssetsOn(rd) ==
    /\ initPc = "defineLoadAssets"
    /\ IF rd.ok
       THEN DefineCompute(rd.data[1])
       ELSE /\ initPc' = "defineCreateAssets"
            /\ UNCHANGED <<initLocal, lockFile>>
    /\ UNCHANGED <<probe, restarts, assetsFile, transactionsFile, productFile, serverState,
                   myProduct, syncTimer, req, registryVars,
                   activeStock>>

DefineLoadAssets == DefineLoadAssetsOn(readJSON(assetsFile))

\* updateAssets, lines 157-163, for defineProduct: the ledger is read, the
\* update function applied and writeJSON started
DefineUpdate(assets) ==
    /\ initLocal' = [initLocal EXCEPT !.assets =
          FileOf(defineUpdateFn(assets, DemoProductName,
                                initLocal.quantity, initLocal.consumedPts))]
    /\ initPc' = "defineCsWrite"

DefineCsLoadOn(rd) ==
    /\ initPc = "defineCsLoad"
    /\ IF rd.ok
       THEN DefineUpdate(rd.data[1])
       ELSE initPc' = "defineCsCreate" /\ UNCHANGED initLocal
    /\ UNCHANGED <<probe, restarts, storeFiles, serverState, myProduct, syncTimer, req,
                   registryVars, activeStock>>

DefineCsLoad == DefineCsLoadOn(readJSON(assetsFile))

\* updateAssets, lines 163-173, for defineProduct: the ledger is written, the
\* lock file removed; saveProduct (line 234) starts its writeJSON
DefineCsWrite ==
    /\ initPc = "defineCsWrite"
    /\ assetsFile' = initLocal.assets
    /\ lockFile' = FALSE
    /\ initPc' = "saveProduct"
    /\ UNCHANGED <<probe, restarts, transactionsFile, productFile, serverState, myProduct, initLocal,
                   syncTimer, req, registryVars, activeStock>>

\* lines 234-239 and 418-425: product.json is written, myProduct set to the
\* product with its quantity, the state becomes CONFIGURED, app.listen
DefineSaveProduct ==
    /\ initPc = "saveProduct"
    /\ productFile' = FileOf([name |-> DemoProductName, priceYen |-> DemoPriceYen])
    /\ myProduct' = << [name |-> DemoProductName, priceYen |-> DemoPriceYen,
                        quantity |-> initLocal.quantity] >>
    /\ serverState' = "CONFIGURED"
    /\ initPc' = "listening"
    /\ UNCHANGED <<probe, restarts, assetsFile, transactionsFile, lockFile, initLocal, syncTimer,
                   req, registryVars, activeStock>>

(***************************************************************************)
(* Registration client: registerToMarket (lines 301-316) and the listen    *)
(* callback (lines 425-439)                                                *)
(***************************************************************************)
\* the request body of line 303-308
storeRegisterBody ==
    [fields |-> {"ip", "product", "priceYen", "port"},
     ip |-> myIpAddress, port |-> PORT,
     product |-> myProduct[1].name,
     priceYen |-> myProduct[1].priceYen, priceType |-> "number"]

\* the listen callback calls registerToMarket: axios.post is sent; the
\* registry is reachable or not
ListenCallback ==
    /\ initPc = "listening"
    /\ \E reachable \in BOOLEAN :
         call' = [call EXCEPT !["store"] =
                    [@ EXCEPT !.pc = IF reachable THEN "received" ELSE "unreachable",
                              !.body = storeRegisterBody]]
    /\ initPc' = "registering"
    /\ UNCHANGED <<probe, restarts, storeFiles, serverState, myProduct, initLocal, syncTimer,
                   req, registryKind, marketsFile, clock, sweep, listing,
                   activeStock>>

\* an axios told to resolve every response (validateStatus: () => true)
axiosResolvesAny(c) == c.pc = "done"

\* axios resolves a response whose status is 2xx and rejects every other
\* response and every network error
axiosResolves(c) == c.pc = "done" /\ c.status >= 200 /\ c.status < 300

\* RegisterResponse with a retry: a rejected post calls registerToMarket again
RegisterResponseRetry ==
    /\ initPc = "registering"
    /\ call["store"].pc \in {"done", "unreachable"}
    /\ IF axiosResolves(call["store"])
       THEN serverState' = "REGISTERED" /\ initPc' = "registered"
       ELSE serverState' = serverState /\ initPc' = "listening"
    /\ UNCHANGED <<probe, restarts, storeFiles, myProduct, initLocal, syncTimer, req,
                   registryVars, activeStock>>

\* RegisterResponse where a rejected post resets the state to INIT
RegisterResponseDemote ==
    /\ initPc = "registering"
    /\ call["store"].pc \in {"done", "unreachable"}
    /\ IF axiosResolves(call["store"])
       THEN serverState' = "REGISTERED" /\ initPc' = "registered"
       ELSE serverState' = "INIT" /\ initPc' = "registerFailed"
    /\ UNCHANGED <<probe, restarts, storeFiles, myProduct, initLocal, syncTimer, req,
                   registryVars, activeStock>>

\* lines 310-311 and 312-315, 436-438: the answer to axios.post.  A resolved
\* post sets REGISTERED; a rejected one is logged by the listen callback and
\* nothing else is done.
RegisterResponse ==
    /\ initPc = "registering"
    /\ call["store"].pc \in {"done", "unreachable"}
    /\ IF axiosResolves(call["store"])
       THEN serverState' = "REGISTERED" /\ initPc' = "registered"
       ELSE serverState' = serverState /\ initPc' = "registerFailed"
    /\ UNCHANGED <<probe, restarts, storeFiles, myProduct, initLocal, syncTimer, req,
                   registryVars, activeStock>>

\* lines 431-435, the continuation of `await registerToMarket()`
Activate ==
    /\ initPc = "registered"
    /\ serverState' = "ACTIVE"
    /\ syncTimer' = TRUE
    /\ initPc' = "running"
    /\ activeStock' = stockOf(assetsFile, myProduct[1].name)
    /\ UNCHANGED <<probe, restarts, storeFiles, myProduct, initLocal, req, registryVars>>

\* the continuation of an await is a microtask: it runs before the event
\* loop takes the next request, timer or I/O completion
MicrotaskPending == initPc = "registered"

\* the store accepts connections once app.listen has been called
Listening == initPc \in {"registering", "registerFailed", "registered", "running"}

(***************************************************************************)
(* Registry: POST /register of central-server.js, in its single-product    *)
(* version (part_000 lines 128-181) and its multi-product version (lines   *)
(* 368-436)                                                                *)
(***************************************************************************)
Has(body, f) == f \in body.fields
\* JavaScript's !x for a string field: undefined or ''
falsyStr(body, f) == ~Has(body, f) \/ body[f] = ""
\* JavaScript's !x for a number field: undefined or 0
falsyNum(body, f) == ~Has(body, f) \/ body[f] = 0

\* lines 133-141: the single-product version's validation
validSingle(body) ==
    /\ ~(falsyStr(body, "ip") \/ falsyStr(body, "product")
         \/ falsyNum(body, "priceYen") \/ falsyNum(body, "port"))
    /\ ~(body.priceType # "number" \/ body.priceYen <= 0)

\* lines 384-392: one entry of products (for the entry null see
\* registerThrows)
validItem(item) ==
    /\ item # NullItem
    /\ ~(item.product = "" \/ item.priceType # "number" \/ item.priceYen <= 0)

\* lines 373-392: the multi-product version's validation
validMulti(body) ==
    /\ ~(falsyStr(body, "ip") \/ falsyNum(body, "port")
         \/ ~Has(body, "products") \/ ~body.productsIsArray
         \/ Len(body.products) = 0)
    /\ \A i \in 1..Len(body.products) : validItem(body.products[i])

registerValid(kind, body) ==
    IF kind = "single" THEN validSingle(body) ELSE validMulti(body)

\* the first entry of products the loop of lines 384-392 stops at, 0 when it
\* runs to the end
firstBadItem(products) ==
    IF \E i \in 1..Len(products) : ~validItem(products[i])
    THEN CHOOSE i \in 1..Len(products) :
            /\ ~validItem(products[i])
            /\ \A j \in 1..(i - 1) : validItem(products[j])
    ELSE 0

\* line 386: `item.product` of an entry that is null throws a TypeError,
\* which the handler's catch (lines 432-435) answers with 500
registerThrows(kind, body) ==
    /\ kind = "multi"
    /\ ~(falsyStr(body, "ip") \/ falsyNum(body, "port")
         \/ ~Has(body, "products") \/ ~body.productsIsArray
         \/ Len(body.products) = 0)
    /\ firstBadItem(body.products) > 0
    /\ body.products[firstBadItem(body.products)] = NullItem

\* the status of a request that is answered before `await loadMarkets()`,
\* 0 when the handler goes on
registerRejection(kind, body) ==
    IF registerThrows(kind, body) THEN 500
    ELSE IF registerValid(kind, body) THEN 0 ELSE 400

\* `${ip}:${port}`
addressOf(body) == <<body.ip, body.port>>

\* a search that never finds the address
findIndexNever(markets, address) == 0

\* markets.findIndex((m) => m.address === address): 0 when there is none
findIndex(markets, address) ==
    IF \E i \in 1..Len(markets) : markets[i].address = address
    THEN CHOOSE i \in 1..Len(markets) :
            /\ markets[i].address = address
            /\ \A j \in 1..(i - 1) : markets[j].address # address
    ELSE 0

\* products.map((p) => ({product: p.product, price: p.priceYen}))
mapProducts(products) ==
    [i \in 1..Len(products) |->
        [product |-> products[i].product, price |-> products[i].priceYen]]

\* the record written over an existing one (lines 154-160, 405-413)
updatedRecord(kind, body, now) ==
    IF kind = "single"
    THEN [product |-> body.product, price |-> body.priceYen,
          address |-> addressOf(body), status |-> "ONLINE", updatedAt |-> now]
    ELSE [products |-> mapProducts(body.products),
          address |-> addressOf(body), status |-> "ONLINE", updatedAt |-> now]

\* the record pushed for a new address (lines 163-170, 416-425)
newRecord(kind, body, now) ==
    IF kind = "single"
    THEN [product |-> body.product, price |-> body.priceYen,
          address |-> addressOf(body), status |-> "ONLINE",
          createdAt |-> now, updatedAt |-> now]
    ELSE [products |-> mapProducts(body.products),
          address |-> addressOf(body), status |-> "ONLINE",
          createdAt |-> now, updatedAt |-> now]

\* an upsert that pushes a record whether or not the address is known
upsertAlwaysPush(kind, markets, body, now) ==
    Append(markets, newRecord(kind, body, now))

\* lines 150-171, 401-426
upsert(kind, markets, body, now) ==
    LET existingIndex == findIndex(markets, addressOf(body)) IN
    IF existingIndex > 0
    THEN [markets EXCEPT ![existingIndex] = updatedRecord(kind, body, now)]
    ELSE Append(markets, newRecord(kind, body, now))

\* loadMarkets (lines 55-62, 288-295): [] when markets.json cannot be read
loadMarkets(rd) == IF rd.ok THEN rd.data[1] ELSE <<>>

\* the handler up to `await loadMarkets()`, run on request q: a malformed
\* request is answered at once.  The body of an answered request is kept
\* only when the request was acknowledged (history).
receive(kind, q) ==
    IF registerRejection(kind, q.body) = 0
    THEN [q EXCEPT !.pc = "load"]
    ELSE [q EXCEPT !.pc = "done", !.body = NoBody,
                   !.status = registerRejection(kind, q.body)]

\* the store's request reaches the registry
RegisterReceive(c) ==
    /\ call[c].pc = "received"
    /\ call' = [call EXCEPT ![c] = receive(registryKind, call[c])]
    /\ UNCHANGED <<probe, restarts, storeFiles, storeProc, req, registryKind, marketsFile, clock,
                   sweep>>
    /\ listing' = NoListing

\* the request of client c, with its body
requestOf(body) == [IdleCall EXCEPT !.body = body]

\* a client's request reaches the registry.  The clients are
\* interchangeable: they are taken in the order of ClientNames.
ClientRegister(c) ==
    /\ call[c].pc = "idle"
    /\ \A i \in 1..NumClients :
         (i < NumClients /\ ClientNames[i + 1] = c) => call[ClientNames[i]].pc # "idle"
    /\ \E body \in RegisterInputs :
         call' = [call EXCEPT ![c] = receive(registryKind, requestOf(body))]
    /\ UNCHANGED <<probe, restarts, storeFiles, storeProc, req, registryKind, marketsFile, clock,
                   sweep>>
    /\ listing' = NoListing

\* markets.json has been read: the record is upserted and saveMarkets starts
RegisterLoadOn(c, rd) ==
    /\ call[c].pc = "load"
    /\ call' = [call EXCEPT ![c].pc = "save",
                            ![c].markets = upsert(registryKind, loadMarkets(rd),
                                                  call[c].body, clock + 1)]
    /\ clock' = clock + 1
    /\ UNCHANGED <<probe, restarts, storeFiles, storeProc, req, registryKind, marketsFile,
                   sweep>>
    /\ listing' = NoListing

RegisterLoad(c) == RegisterLoadOn(c, readJSON(marketsFile))

\* saveMarkets has written markets.json: the request is answered 200
RegisterSave(c) ==
    /\ call[c].pc = "save"
    /\ marketsFile' = FileOf(call[c].markets)
    /\ call' = [call EXCEPT ![c].pc = "done", ![c].markets = <<>>,
                            ![c].status = 200]
    /\ UNCHANGED <<probe, restarts, storeFiles, storeProc, req, registryKind, clock,
                   sweep>>
    /\ listing' = NoListing

(***************************************************************************)
(* Registry: GET /markets (lines 184-201, 439-474) and the store's         *)
(* syncMarkets (my-store.js lines 322-335)                                 *)
(***************************************************************************)
statusOf(market) ==
    IF "status" \in DOMAIN market /\ market.status # "" THEN market.status ELSE "UNKNOWN"

\* a listing that reports every record as ONLINE
listEntryAlwaysOnline(kind, market) ==
    IF kind = "single"
    THEN << [product |-> market.product, price |-> market.price,
             address |-> market.address, status |-> "ONLINE"] >>
    ELSE << [products |-> market.products, address |-> market.address,
             status |-> "ONLINE"] >>

\* a listing that passes the record's updatedAt on
listEntryWithTimestamp(kind, market) ==
    IF kind = "single"
    THEN << [product |-> market.product, price |-> market.price,
             address |-> market.address, status |-> statusOf(market),
             updatedAt |-> market.updatedAt] >>
    ELSE << [products |-> market.products, address |-> market.address,
             status |-> statusOf(market), updatedAt |-> market.updatedAt] >>

\* the entry of one record; <<>> where the multi-product map returns undefined
listEntry(kind, market) ==
    IF kind = "single"
    THEN << [product |-> market.product, price |-> market.price,
             address |-> market.address, status |-> statusOf(market)] >>
    ELSE IF "products" \in DOMAIN market
         THEN << [products |-> market.products, address |-> market.address,
                  status |-> statusOf(market)] >>
         ELSE IF "product" \in DOMAIN market /\ market.product # ""
              THEN << [products |-> << [product |-> market.product,
                                        price |-> market.price] >>,
                       address |-> market.address, status |-> statusOf(market)] >>
              ELSE <<>>

RECURSIVE listMarkets(_, _)
listMarkets(kind, markets) ==
    IF markets = <<>> THEN <<>>
    ELSE listEntry(kind, Head(markets)) \o listMarkets(kind, Tail(markets))

\* what syncMarkets returns: the listing, or [] when the registry cannot be
\* reached (lines 324-334)
syncMarkets(reachable) ==
    IF reachable
    THEN listMarkets(registryKind, loadMarkets(readJSON(marketsFile)))
    ELSE <<>>

\* one tick of setInterval(syncMarkets, MARKET_SYNC_INTERVAL) (line 435): the
\* listing is fetched and its length logged; the timer drops what
\* syncMarkets returns, so no state of the store changes
SyncMarkets ==
    /\ syncTimer
    /\ ~MicrotaskPending
    /\ \E reachable \in BOOLEAN : Len(syncMarkets(reachable)) >= 0
    /\ UNCHANGED vars

\* GET /markets: markets.json is read and its records are mapped to the
\* entries of the response (lines 186-196, 441-469)
ListMarkets ==
    /\ listing' = [status |-> 200,
                   data |-> listMarkets(registryKind,
                                        loadMarkets(readJSON(marketsFile)))]
    /\ UNCHANGED <<probe, restarts, storeFiles, storeProc, req, registryKind, marketsFile, call,
                   clock, sweep>>

(***************************************************************************)
(* Registry: the health sweep, performHealthChecks (lines 99-120, 332-353) *)
(* with checkServerHealth (lines 83-93, 316-326), started every            *)
(* HEALTH_CHECK_INTERVAL by setInterval (lines 225, 496).  A probe gives   *)
(* up after 5 s and the interval is 30 s, so a sweep has ended when the    *)
(* next one starts.                                                        *)
(***************************************************************************)
\* what GET http://address/health comes to: the status of the response, or 0
\* when there is none (refused, timed out)
HealthOutcomes == {200, 503, 0}

\* lines 85-92, 318-325: axios rejects a status outside 2xx and a missing
\* response, and the catch returns false
checkServerHealth(outcome) == outcome = 200

\* a sweep that never switches a record back from OFFLINE
probedRecordSticky(market, isOnline) ==
    [market EXCEPT !.status = IF isOnline /\ market.status # "OFFLINE"
                              THEN "ONLINE" ELSE "OFFLINE"]

\* lines 107-110, 340-343: {...market, status: isOnline ? 'ONLINE' : 'OFFLINE'}
probedRecord(market, isOnline) ==
    [market EXCEPT !.status = IF isOnline THEN "ONLINE" ELSE "OFFLINE"]

\* a sweep that drops the records whose probe failed
updatedMarketsPurging(markets, health) ==
    LET kept == {i \in 1..Len(markets) : checkServerHealth(health[i])} IN
    [i \in 1..Cardinality(kept) |->
        probedRecord(markets[CHOOSE k \in kept :
                                Cardinality({j \in kept : j <= k}) = i], TRUE)]

\* what Promise.all resolves to once every probe has returned
updatedMarkets(markets, health) ==
    [i \in 1..Len(markets) |->
        probedRecord(markets[i], checkServerHealth(health[i]))]

Probing(i) == sweep.pc = "probe" /\ i \in 1..Len(sweep.markets)
              /\ sweep.health[i] = -1

\* the program counter of the sweep once the probes have come to `health`
afterProbe(health) ==
    IF \E j \in 1..Len(health) : health[j] = -1 THEN "probe" ELSE "save"

\* the timer fires: performHealthChecks starts to read markets.json
SweepTick ==
    /\ sweep.pc = "idle"
    /\ sweep' = [IdleSweep EXCEPT !.pc = "load"]
    /\ UNCHANGED <<probe, restarts, storeFiles, storeProc, req, registryKind, marketsFile, call,
                   clock>>
    /\ listing' = NoListing

\* markets.json has been read: one probe per record is sent.  Promise.all
\* of no probe resolves at once.
SweepLoadOn(rd) ==
    /\ sweep.pc = "load"
    /\ LET markets == loadMarkets(rd)
           health == [i \in 1..Len(markets) |-> -1]
       IN sweep' = [sweep EXCEPT !.pc = afterProbe(health),
                                 !.markets = markets,
                                 !.health = health]
    /\ UNCHANGED <<probe, restarts, storeFiles, storeProc, req, registryKind, marketsFile, call,
                   clock>>
    /\ listing' = NoListing

SweepLoad == SweepLoadOn(readJSON(marketsFile))

\* a sweep that persists the status of a record as soon as its probe returns
SweepProbeEager(i, outcome) ==
    /\ Probing(i)
    /\ sweep' = [sweep EXCEPT
                   !.health[i] = outcome,
                   !.pc = afterProbe([sweep.health EXCEPT ![i] = outcome])]
    /\ marketsFile' = FileOf([sweep.markets EXCEPT
                                ![i] = probedRecord(sweep.markets[i],
                                                    checkServerHealth(outcome))])
    /\ UNCHANGED <<probe, restarts, storeFiles, storeProc, req, registryKind, call, clock>>
    /\ listing' = NoListing

\* the probe of record i returns; when it was the last one, Promise.all
\* resolves and saveMarkets(updatedMarkets) starts
SweepProbe(i, outcome) ==
    /\ Probing(i)
    /\ sweep' = [sweep EXCEPT
                   !.health[i] = outcome,
                   !.pc = afterProbe([sweep.health EXCEPT ![i] = outcome])]
    /\ UNCHANGED <<probe, restarts, storeFiles, storeProc, req, registryKind, marketsFile, call,
                   clock>>
    /\ listing' = NoListing

\* saveMarkets has written markets.json: the sweep is over
SweepSave ==
    /\ sweep.pc = "save"
    /\ marketsFile' = FileOf(updatedMarkets(sweep.markets, sweep.health))
    /\ sweep' = [IdleSweep EXCEPT
                   !.recovered = {sweep.markets[i].address :
                                    i \in {j \in 1..Len(sweep.markets) :
                                             /\ sweep.markets[j].status = "OFFLINE"
                                             /\ checkServerHealth(sweep.health[j])}}]
    /\ UNCHANGED <<probe, restarts, storeFiles, storeProc, req, registryKind, call, clock>>
    /\ listing' = NoListing

(***************************************************************************)
(* Registry: the process dies and is started again (lines 204-235,         *)
(* 477-502).  The requests it was handling get no answer, the sweep in     *)
(* progress is lost, and start-up reads markets.json without writing it.   *)
(***************************************************************************)
InFlight(c) == call[c].pc \in {"load", "save"}

RegistryCrash ==
    /\ sweep.pc # "idle" \/ \E c \in Callers : InFlight(c)
    /\ call' = [c \in Callers |->
                  IF InFlight(c)
                  THEN [IdleCall EXCEPT !.pc = "unreachable"]
                  ELSE call[c]]
    /\ sweep' = IdleSweep
    /\ UNCHANGED <<probe, restarts, storeFiles, storeProc, req, registryKind, marketsFile,
                   clock>>
    /\ listing' = NoListing

(***************************************************************************)
(* Purchase handler: app.post('/buy') (lines 347-389), processPurchase     *)
(* (lines 249-295), updateAssets (lines 145-174), recordTransaction        *)
(* (lines 181-193)                                                         *)
(***************************************************************************)
\* a state check that refuses INIT only
notActiveInitOnly(state) == state = "INIT"

\* line 350
notActive(state) == state # "ACTIVE"
\* the body {product, qty} of a /buy request as JSON: product is a string
\* ("" when it is missing); qty is missing ("undefined"), the string str, or
\* the number num / den
buyBody(product, qtyType, str, num, den) ==
    [product |-> product, qtyType |-> qtyType, str |-> str, num |-> num, den |-> den]

\* JavaScript's !qty: undefined, '' or 0
falsyQty(body) ==
    \/ body.qtyType = "undefined"
    \/ body.qtyType = "string" /\ body.str = ""
    \/ body.qtyType = "number" /\ body.num = 0

\* lines 359-367: !product || !qty, then typeof qty !== 'number' || qty <= 0
bodyMalformed(body) ==
    \/ body.product = "" \/ falsyQty(body)
    \/ body.qtyType # "number" \/ body.num <= 0

\* the same for a body whose qty is the integer qty (the buy requests of
\* Spec and FaultSpec)
buyMalformed(product, qty) == bodyMalformed(buyBody(product, "number", "", qty, 1))

\* lines 350-367: the status the handler answers before it calls
\* processPurchase, 0 when it calls it
buyVerdict(state, body) ==
    IF notActive(state) THEN 503
    ELSE IF bodyMalformed(body) THEN 400
    ELSE 0
\* line 251
nameMismatch(product, mine) == product # mine.name
\* lines 376-387: the status answered for an error thrown by processPurchase
errorStatus(error) ==
    IF error \in {"mismatch", "insufficient"} THEN 409 ELSE 500

\* the answer ends the handler: its locals are gone
respond(q, status, error) ==
    [q EXCEPT !.pc = "done", !.status = status, !.error = error,
              !.assets = NoLedger, !.log = <<>>]

\* the handler from the request's arrival to the first await: the state
\* check, the validation, processPurchase's name check, and updateAssets'
\* attempt to create the lock file
BuyStart(r) ==
    /\ Listening
    /\ ~MicrotaskPending
    /\ req[r].pc = "idle"
    /\ \E in \in BuyInputs :
         LET q == [req[r] EXCEPT !.product = in.product, !.qty = in.qty, !.buyer = r]
             lk == openSyncWx(lockFile)
         IN  IF notActive(serverState)
             THEN req' = [req EXCEPT ![r] = respond(q, 503, "inactive")]
                  /\ lockFile' = lockFile
             ELSE IF buyMalformed(in.product, in.qty)
             THEN req' = [req EXCEPT ![r] = respond(q, 400, "malformed")]
                  /\ lockFile' = lockFile
             ELSE IF nameMismatch(in.product, myProduct[1])
             THEN req' = [req EXCEPT ![r] = respond(q, errorStatus("mismatch"), "mismatch")]
                  /\ lockFile' = lockFile
             ELSE IF ~lk.ok
             THEN req' = [req EXCEPT ![r] = respond(q, errorStatus("locked"), "locked")]
                  /\ lockFile' = lk.lock
             ELSE req' = [req EXCEPT ![r] = [q EXCEPT !.pc = "csLoad", !.pre = assetsFile]]
                  /\ lockFile' = lk.lock
    /\ UNCHANGED <<probe, restarts, assetsFile, transactionsFile, productFile, storeProc, registryVars>>

\* BuyUpdate without the finally block: a throwing update function leaves
\* the lock file behind
BuyUpdateNoFinally(r, assets) ==
    LET u == purchaseUpdateFn(assets, req[r].product, req[r].qty, myProduct[1].priceYen)
    IN  /\ lockFile' = lockFile
        /\ IF u.ok
           THEN req' = [req EXCEPT ![r].pc = "csWrite", ![r].assets = FileOf(u.assets)]
           ELSE req' = [req EXCEPT ![r] =
                          respond(req[r], errorStatus("insufficient"), "insufficient")]

\* BuyUpdate removing the lock file before writeJSON is awaited
BuyUpdateEarlyRelease(r, assets) ==
    LET u == purchaseUpdateFn(assets, req[r].product, req[r].qty, myProduct[1].priceYen)
    IN  /\ lockFile' = FALSE
        /\ IF u.ok
           THEN req' = [req EXCEPT ![r].pc = "csWrite", ![r].assets = FileOf(u.assets)]
           ELSE req' = [req EXCEPT ![r] =
                          respond(req[r], errorStatus("insufficient"), "insufficient")]

\* updateAssets lines 160-173 once loadAssets has returned `assets`: the
\* update function runs; when it throws, the finally block removes the lock
\* file and the error is answered; otherwise writeJSON starts
BuyUpdate(r, assets) ==
    LET u == purchaseUpdateFn(assets, req[r].product, req[r].qty, myProduct[1].priceYen)
    IN  IF u.ok
        THEN /\ req' = [req EXCEPT ![r].pc = "csWrite", ![r].assets = FileOf(u.assets)]
             /\ lockFile' = lockFile
        ELSE /\ req' = [req EXCEPT ![r] =
                          respond(req[r], errorStatus("insufficient"), "insufficient")]
             /\ lockFile' = FALSE

\* updateAssets line 157: loadAssets has read assets.json
BuyLoadOn(r, rd) ==
    /\ req[r].pc = "csLoad"
    /\ IF rd.ok
       THEN BuyUpdate(r, rd.data[1])
       ELSE req' = [req EXCEPT ![r].pc = "csCreate"] /\ lockFile' = lockFile
    /\ UNCHANGED <<probe, restarts, assetsFile, transactionsFile, productFile, storeProc, registryVars>>

BuyLoad(r) == BuyLoadOn(r, readJSON(assetsFile))

\* BuyWrite that starts recordTransaction without having written the ledger
BuyWriteSkipped(r) ==
    /\ req[r].pc = "csWrite"
    /\ lockFile' = FALSE
    /\ req' = [req EXCEPT ![r].pc = "logLoad", ![r].assets = NoLedger]
    /\ UNCHANGED <<probe, restarts, assetsFile, transactionsFile, productFile, storeProc,
                   registryVars>>

\* updateAssets lines 163-173: writeJSON has written assets.json, the finally
\* block removes the lock file; recordTransaction starts loadTransactions
BuyWrite(r) ==
    /\ req[r].pc = "csWrite"
    /\ assetsFile' = req[r].assets
    /\ lockFile' = FALSE
    /\ req' = [req EXCEPT ![r].pc = "logLoad", ![r].committed = TRUE,
                          ![r].assets = NoLedger]
    /\ UNCHANGED <<probe, restarts, transactionsFile, productFile, storeProc, registryVars>>

\* the record of lines 279-286 (its tradeId and its ts, readings of the wall
\* clock and of Math.random, are left out)
transactionOf(q, mine) ==
    [buyer |-> q.buyer, seller |-> myIpAddress,
     product |-> q.product, qty |-> q.qty, price |-> mine.priceYen]

\* recordTransaction lines 183-188: the log has been read, the record is
\* pushed and writeJSON starts
BuyLogLoadOn(r, rd) ==
    /\ req[r].pc = "logLoad"
    /\ IF rd.ok
       THEN req' = [req EXCEPT ![r].pc = "logWrite",
                               ![r].log = Append(rd.data[1],
                                                 transactionOf(req[r], myProduct[1]))]
       ELSE req' = [req EXCEPT ![r].pc = "logCreate"]
    /\ UNCHANGED <<probe, restarts, storeFiles, storeProc, registryVars>>

BuyLogLoad(r) == BuyLogLoadOn(r, readJSON(transactionsFile))

\* recordTransaction line 188 and lines 288-294, 375: the log has been
\* written; the purchase is answered 200
BuyLogWrite(r) ==
    /\ req[r].pc = "logWrite"
    /\ transactionsFile' = FileOf(req[r].log)
    /\ req' = [req EXCEPT ![r] =
                 [respond(req[r], 200, "") EXCEPT
                    !.totalPrice = myProduct[1].priceYen * req[r].qty]]
    /\ UNCHANGED <<probe, restarts, assetsFile, productFile, lockFile, storeProc, registryVars>>

(***************************************************************************)
(* The system whose storage works                                          *)
(***************************************************************************)
StartUp ==
    \/ InitLoadAssets
    \/ InitCreateAssets
    \/ InitLoadTransactions
    \/ InitCreateTransactions
    \/ InitLoadProduct
    \/ DefineLoadAssets
    \/ DefineCsLoad
    \/ DefineCsWrite
    \/ DefineSaveProduct

Registration ==
    \/ ListenCallback
    \/ RegisterReceive("store")
    \/ RegisterLoad("store")
    \/ RegisterSave("store")
    \/ RegisterResponse
    \/ Activate
    \/ SyncMarkets

Purchase(r) ==
    \/ BuyStart(r)
    \/ BuyLoad(r)
    \/ BuyWrite(r)
    \/ BuyLogLoad(r)
    \/ BuyLogWrite(r)

Next ==
    \/ StartUp
    \/ Registration
    \/ \E r \in Reqs : Purchase(r)

Spec == Init /\ [][Next]_vars

(***************************************************************************)
(* Storage failures: a readJSON that throws although the file exists, a    *)
(* writeJSON that throws                                                   *)
(***************************************************************************)
InitLoadAssetsFault == InitLoadAssetsOn(ReadError)
InitLoadTransactionsFault == InitLoadTransactionsOn(ReadError)
InitLoadProductFault == InitLoadProductOn(ReadError)
DefineLoadAssetsFault == DefineLoadAssetsOn(ReadError)
DefineCsLoadFault == DefineCsLoadOn(ReadError)

\* loadAssets' catch in defineProduct (line 209): the initial ledger is
\* written and returned
DefineCreateAssets ==
    /\ initPc = "defineCreateAssets"
    /\ assetsFile' = FileOf(createInitialAssets)
    /\ DefineCompute(createInitialAssets)
    /\ UNCHANGED <<probe, restarts, transactionsFile, productFile, serverState, myProduct, syncTimer,
                   req, registryVars, activeStock>>

\* loadAssets' catch in updateAssets (line 157), for defineProduct
DefineCsCreate ==
    /\ initPc = "defineCsCreate"
    /\ assetsFile' = FileOf(createInitialAssets)
    /\ DefineUpdate(createInitialAssets)
    /\ UNCHANGED <<probe, restarts, transactionsFile, productFile, lockFile, serverState, myProduct,
                   syncTimer, req, registryVars, activeStock>>

\* a writeJSON of the start-up throws: updateAssets' finally block removes
\* the lock file it holds, and initializeServer's catch ends the process
\* (lines 440-443)
StartUpWriteFault ==
    /\ initPc \in {"createAssets", "createTransactions", "defineCreateAssets",
                   "defineCsCreate", "defineCsWrite", "saveProduct"}
    /\ lockFile' = IF initPc \in {"defineCsCreate", "defineCsWrite"} THEN FALSE ELSE lockFile
    /\ initPc' = "exited"
    /\ UNCHANGED <<probe, restarts, assetsFile, transactionsFile, productFile, serverState,
                   myProduct, initLocal, syncTimer, req,
                   registryVars, activeStock>>

BuyLoadFault(r) == BuyLoadOn(r, ReadError)
BuyLogLoadFault(r) == BuyLogLoadOn(r, ReadError)

\* loadAssets' catch in updateAssets (line 157), for a purchase: the initial
\* ledger is written and the update function runs on it
BuyCsCreate(r) ==
    /\ req[r].pc = "csCreate"
    /\ assetsFile' = FileOf(createInitialAssets)
    /\ BuyUpdate(r, createInitialAssets)
    /\ UNCHANGED <<probe, restarts, transactionsFile, productFile, storeProc, registryVars>>

\* a writeJSON of updateAssets throws: the finally block removes the lock
\* file and the error is answered 500
BuyWriteFault(r) ==
    /\ req[r].pc \in {"csCreate", "csWrite"}
    /\ lockFile' = FALSE
    /\ req' = [req EXCEPT ![r] = respond(req[r], errorStatus("io"), "io")]
    /\ UNCHANGED <<probe, restarts, assetsFile, transactionsFile, productFile, storeProc, registryVars>>

\* loadTransactions' catch in recordTransaction (line 183): an empty log is
\* written and returned, the record pushed
BuyLogCreate(r) ==
    /\ req[r].pc = "logCreate"
    /\ transactionsFile' = FileOf(createInitialTransactions)
    /\ req' = [req EXCEPT ![r].pc = "logWrite",
                          ![r].log = Append(createInitialTransactions,
                                            transactionOf(req[r], myProduct[1]))]
    /\ UNCHANGED <<probe, restarts, assetsFile, productFile, lockFile, storeProc, registryVars>>

\* a writeJSON of recordTransaction throws: the error is answered 500
BuyLogWriteFault(r) ==
    /\ req[r].pc \in {"logCreate", "logWrite"}
    /\ req' = [req EXCEPT ![r] = respond(req[r], errorStatus("io"), "io")]
    /\ UNCHANGED <<probe, restarts, storeFiles, storeProc, registryVars>>

StorageFault ==
    \/ InitLoadAssetsFault
    \/ InitLoadTransactionsFault
    \/ InitLoadProductFault
    \/ DefineLoadAssetsFault
    \/ DefineCsLoadFault
    \/ DefineCreateAssets
    \/ DefineCsCreate
    \/ StartUpWriteFault
    \/ \E r \in Reqs :
          \/ BuyLoadFault(r)
          \/ BuyCsCreate(r)
          \/ BuyWriteFault(r)
          \/ BuyLogLoadFault(r)
          \/ BuyLogCreate(r)
          \/ BuyLogWriteFault(r)

FaultNext == Next \/ StorageFault

\* the system whose storage may fail
FaultSpec == Init /\ [][FaultNext]_vars

\* a step that completes the pending file I/O of an updateAssets call,
\* with its result or with an error
SectionStep ==
    \/ DefineCsLoad
    \/ DefineCsLoadFault
    \/ DefineCsCreate
    \/ DefineCsWrite
    \/ StartUpWriteFault
    \/ \E r \in Reqs :
          \/ BuyLoad(r)
          \/ BuyLoadFault(r)
          \/ BuyCsCreate(r)
          \/ BuyWrite(r)
          \/ BuyWriteFault(r)

\* the system whose storage may fail, where every file operation started
\* inside updateAssets completes, with its result or with an error
FairFaultSpec == FaultSpec /\ WF_vars(SectionStep)

(***************************************************************************)
(* The registry on its own: clients register, the health sweep runs,       *)
(* the directory is listed and the process may be restarted                *)
(***************************************************************************)
ClientCall(c) ==
    \/ ClientRegister(c)
    \/ RegisterLoad(c)
    \/ RegisterSave(c)

HealthSweep ==
    \/ SweepTick
    \/ SweepLoad
    \/ \E i \in 1..Len(sweep.markets), outcome \in HealthOutcomes :
            SweepProbe(i, outcome)
    \/ SweepSave

RegistryNext ==
    \/ \E c \in Clients : ClientCall(c)
    \/ HealthSweep
    \/ ListMarkets
    \/ RegistryCrash

RegistrySpec == Init /\ [][RegistryNext]_vars

(***************************************************************************)
(* The input validation of POST /buy (lines 350-367) on its own: a request *)
(* body and a server state are drawn, and the handler's checks are applied *)
(***************************************************************************)
ServerStates == {"INIT", "CONFIGURED", "REGISTERED", "ACTIVE"}

\* quantities that are missing, strings, integers from -2 to 3, and halves
BuyQuantities ==
    {buyBody("", "undefined", "", 0, 1), buyBody("", "string", "", 0, 1),
     buyBody("", "string", "2", 0, 1)}
    \cup {buyBody("", "number", "", n, 1) : n \in -2..3}
    \cup {buyBody("", "number", "", n, 2) : n \in {-1, 1, 3}}

BuyBodies ==
    {[q EXCEPT !.product = product] :
        q \in BuyQuantities, product \in {DemoProductName, ""}}

InitValidation ==
    /\ InitState
    /\ probe \in {[pc |-> "ready", state |-> state, body |-> body, verdict |-> -1] :
                     state \in ServerStates, body \in BuyBodies}

ValidateBuy ==
    /\ probe.pc = "ready"
    /\ probe' = [probe EXCEPT !.pc = "done",
                              !.verdict = buyVerdict(probe.state, probe.body)]
    /\ UNCHANGED <<restarts, storeFiles, storeProc, req, registryVars>>

ValidationSpec == InitValidation /\ [][ValidateBuy]_vars

(***************************************************************************)
(* The store process killed and started again.  The files stay as the      *)
(* killed process left them, assets.lock included; the module state is     *)
(* that of lines 35-37 again and initializeServer runs from its start      *)
(* (line 446).  The requests the killed process had not answered get no    *)
(* answer.  A kill while the registry is serving the store's registration  *)
(* is taken after the registry has answered: the store does nothing        *)
(* between the two.                                                        *)
(***************************************************************************)
\* a restart that removes assets.lock
StoreCrashUnlocks ==
    /\ restarts < MaxRestarts
    /\ call["store"].pc \notin {"received", "load", "save"}
    /\ restarts' = restarts + 1
    /\ serverState' = "INIT"
    /\ myProduct' = <<>>
    /\ initPc' = "loadAssets"
    /\ initLocal' = NoLocal
    /\ syncTimer' = FALSE
    /\ lockFile' = FALSE
    /\ req' = [r \in Reqs |->
                 IF req[r].pc \in {"idle", "done"} THEN req[r]
                 ELSE respond(req[r], 0, "reset")]
    /\ UNCHANGED <<probe, assetsFile, transactionsFile, productFile, activeStock,
                   registryVars>>

StoreCrash ==
    /\ restarts < MaxRestarts
    /\ call["store"].pc \notin {"received", "load", "save"}
    /\ restarts' = restarts + 1
    /\ serverState' = "INIT"
    /\ myProduct' = <<>>
    /\ initPc' = "loadAssets"
    /\ initLocal' = NoLocal
    /\ syncTimer' = FALSE
    /\ req' = [r \in Reqs |->
                 IF req[r].pc \in {"idle", "done"} THEN req[r]
                 ELSE respond(req[r], 0, "reset")]
    /\ UNCHANGED <<probe, storeFiles, activeStock, registryVars>>

CrashNext == Next \/ StoreCrash

CrashSpec == Init /\ [][CrashNext]_vars

(***************************************************************************)
(* The registry's health sweep probing the store: GET /health of           *)
(* my-store.js (lines 338-344) answered to checkServerHealth (part_000     *)
(* lines 83-93, 316-326)                                                   *)
(***************************************************************************)
\* a health endpoint that answers 200 only when the store is ACTIVE
healthResponseActiveOnly(state, product) ==
    [code |-> IF state = "ACTIVE" THEN 200 ELSE 503,
     status |-> state, product |-> product]

\* lines 339-343: res.status(200).json({status: serverState, product: myProduct})
\* (the timestamp is left out)
healthResponse(state, product) ==
    [code |-> 200, status |-> state, product |-> product]

\* what axios.get gets from the store: the answer of /health when the request
\* reaches a store that is listening, no answer (0: connection refused, or
\* the 5 s timeout) otherwise
probeOutcome(reached) ==
    IF reached /\ Listening THEN healthResponse(serverState, myProduct).code ELSE 0

\* the probe of record i, a record of the store, returns.  The store answers
\* in a turn of its event loop, so not while a continuation is pending.
StoreProbe(i, reached) ==
    /\ sweep.markets[i].address = addressOf(storeRegisterBody)
    /\ reached => ~MicrotaskPending
    /\ SweepProbe(i, probeOutcome(reached))

HealthNext ==
    \/ Next
    \/ SweepTick
    \/ SweepLoad
    \/ \E i \in 1..Len(sweep.markets), reached \in BOOLEAN : StoreProbe(i, reached)
    \/ SweepSave

HealthSpec == Init /\ [][HealthNext]_vars

(***************************************************************************)
(* defineProduct applied to ledgers of any procurement points              *)
(***************************************************************************)
\* procurement points: none, fewer than any price, multiples and
\* non-multiples of the prices, the initial amount
DefinePoints == {0, 1, 99, 100, 119, 120, 121, 100000, InitialProcurementPts}

DefinePrices == {1, 7, 100, DemoPriceYen}

\* ledgers before defineProduct: no inventory yet, or one left by an earlier
\* definition
DefineLedgers ==
    {[createInitialAssets EXCEPT !.procurementPts = pts, !.inventory = inventory] :
        pts \in DefinePoints,
        inventory \in {<<>>, <<[product |-> "tea", qty |-> 5]>>}}

InitDefine ==
    /\ InitState
    /\ probe \in {[pc |-> "defineReady", assets |-> assets, name |-> DemoProductName,
                   priceYen |-> priceYen, result |-> NoLedger] :
                     assets \in DefineLedgers, priceYen \in DefinePrices}

\* defineProduct lines 209-231 on a ledger no other operation touches: the
\* ledger read at line 209 is the ledger updateAssets reads
DefineApply ==
    /\ probe.pc = "defineReady"
    /\ probe' = [probe EXCEPT
                   !.pc = "defined",
                   !.result = FileOf(defineUpdateFn(probe.assets, probe.name,
                                 defineQuantity(probe.assets, probe.priceYen),
                                 defineConsumedPts(probe.assets, probe.priceYen)))]
    /\ UNCHANGED <<restarts, storeFiles, storeProc, req, registryVars>>

DefineSpec == InitDefine /\ [][DefineApply]_vars

(***************************************************************************)
(* Properties                                                              *)
(***************************************************************************)
RECURSIVE SumOver(_, _)
\* the sum of f[r] over the requests of S
SumOver(f, S) ==
    IF S = {} THEN 0
    ELSE LET r == CHOOSE x \in S : TRUE IN f[r] + SumOver(f, S \ {r})

\* the quantities of the purchases whose ledger mutation was persisted
CommittedQty == SumOver([r \in Reqs |-> IF req[r].committed THEN req[r].qty ELSE 0], Reqs)
\* the quantities of the purchases answered 200
SucceededQty == SumOver([r \in Reqs |-> IF req[r].status = 200 THEN req[r].qty ELSE 0], Reqs)

\* updateAssets has taken the lock for request r (at some time)
Acquired(r) == req[r].pre # NoLedger
\* request r is between updateAssets' lock acquisition and its release
InSection(r) == req[r].pc \in {"csLoad", "csCreate", "csWrite"}
StartUpInSection == initPc \in {"defineCsLoad", "defineCsCreate", "defineCsWrite"}
Holders == {r \in Reqs : InSection(r)}
NumHolders == Cardinality(Holders) + (IF StartUpInSection THEN 1 ELSE 0)
\* the stock and the capital of the ledger request r found when it took the lock
PreStock(r) == stockOf(req[r].pre, req[r].product)
PreCapital(r) == req[r].pre[1].capitalYen

\* C1: whatever the interleaving of the buy requests against an ACTIVE store
\* whose inventory starts at Q (storage failures included), the quantities of
\* the purchases that succeed sum to at most Q, and no persisted inventory
\* quantity is negative.
C1_NoOversell ==
    /\ serverState = "ACTIVE" =>
          /\ CommittedQty <= activeStock
          /\ SucceededQty <= activeStock
    /\ Exists(assetsFile) =>
          \A i \in 1..Len(assetsFile[1].inventory) : assetsFile[1].inventory[i].qty >= 0

\* two purchases asking together for more than the stock: one is persisted,
\* the other refused for lack of stock
C1_Witness ==
    \E r1, r2 \in Reqs :
        /\ req[r1].committed
        /\ req[r2].error = "insufficient"
        /\ req[r1].qty + req[r2].qty > activeStock
        /\ req[r2].qty <= activeStock

\* the ledger a purchase of request r must leave: stock Q - q, capital + price*q
ExpectedLedger(r) ==
    LET pre == req[r].pre[1]
        i == findItem(pre.inventory, req[r].product)
    IN  [pre EXCEPT !.inventory[i].qty = @ - req[r].qty,
                    !.capitalYen = @ + myProduct[1].priceYen * req[r].qty]

\* C2: with working storage, a buy of q of the store's product that finds the
\* lock free and a stock Q >= q persists a ledger with stock Q - q and capital
\* increased by price*q (nothing else changed), and is answered 200 with
\* totalPrice = price*q.
C2_PurchaseEffect ==
    /\ [][\A r \in Reqs :
            (Acquired(r) /\ PreStock(r) >= req[r].qty /\ req'[r] # req[r]) =>
               /\ req'[r].pc = "done" => req'[r].status = 200
               /\ req'[r].pc = "logLoad" =>
                     /\ assetsFile' = FileOf(ExpectedLedger(r))
                     /\ stockOf(assetsFile', req[r].product) = PreStock(r) - req[r].qty
                     /\ assetsFile'[1].capitalYen
                           = PreCapital(r) + DemoPriceYen * req[r].qty]_vars
    /\ [](\A r \in Reqs :
            (req[r].pc = "done" /\ Acquired(r) /\ PreStock(r) >= req[r].qty) =>
               /\ req[r].status = 200
               /\ req[r].committed
               /\ req[r].totalPrice = DemoPriceYen * req[r].qty)

\* a purchase of two units answered 200
C2_Witness ==
    \E r \in Reqs :
        /\ req[r].status = 200
        /\ req[r].qty = 2
        /\ req[r].totalPrice = 2 * DemoPriceYen

\* C3: with working storage, a buy of q > Q fails with the insufficient-stock
\* error, answered as a conflict, and no step of it changes the ledger or the
\* log: the ledger when it ends is the ledger it found.
C3_InsufficientUnchanged ==
    /\ [][\A r \in Reqs :
            (req'[r] # req[r] /\ req'[r].pc # "idle"
             /\ Acquired(r)' /\ PreStock(r)' < req'[r].qty) =>
               /\ assetsFile' = assetsFile
               /\ transactionsFile' = transactionsFile
               /\ req'[r].pc = "done" =>
                     /\ req'[r].error = "insufficient"
                     /\ req'[r].status = 409
                     /\ assetsFile' = req'[r].pre]_vars
    /\ [](\A r \in Reqs :
            (req[r].pc = "done" /\ Acquired(r) /\ PreStock(r) < req[r].qty) =>
               /\ req[r].error = "insufficient"
               /\ ~req[r].committed)

\* a buy of one unit more than the stock, refused, on a store that has stock
C3_Witness ==
    \E r \in Reqs :
        /\ req[r].pc = "done"
        /\ req[r].error = "insufficient"
        /\ PreStock(r) > 0
        /\ req[r].qty = PreStock(r) + 1
        /\ assetsFile = req[r].pre

\* C4: at most one updateAssets call is between its lock acquisition and its
\* release, and the lock file exists exactly while one is (storage failures
\* included).
C4_MutualExclusion ==
    /\ NumHolders <= 1
    /\ lockFile <=> NumHolders = 1

\* one buy holds the lock while another was refused for it
C4_Witness ==
    \E r1, r2 \in Reqs :
        /\ InSection(r1)
        /\ req[r2].error = "locked"
        /\ lockFile

\* C5: an updateAssets call made while the lock file exists fails in the same
\* step with the lock error: it never waits, its update function is not
\* applied, the ledger and the log are not written and the lock file stays.
C5_ContentionFailsFast ==
    [][\A r \in Reqs :
         (req[r].pc = "idle" /\ req'[r].pc # "idle" /\ lockFile
          /\ ~notActive(serverState)
          /\ ~buyMalformed(req'[r].product, req'[r].qty)
          /\ ~nameMismatch(req'[r].product, myProduct[1])) =>
            /\ req'[r].pc = "done"
            /\ req'[r].error = "locked"
            /\ ~req'[r].committed
            /\ ~Acquired(r)'
            /\ lockFile'
            /\ assetsFile' = assetsFile
            /\ transactionsFile' = transactionsFile]_vars

\* a buy refused for the lock while its holder is still in its section
C5_Witness ==
    \E r1, r2 \in Reqs :
        /\ req[r1].pc = "csWrite"
        /\ req[r2].pc = "done"
        /\ req[r2].error = "locked"
        /\ req[r2].qty <= PreStock(r1)

\* C6: every updateAssets call that took the lock has removed the lock file
\* when it returns or throws, whether its update function succeeded or threw
\* and whether reading or writing the ledger failed; so a lock file that
\* exists is eventually removed.
C6_LockReleased ==
    /\ [][(\A r \in Reqs : (InSection(r) /\ ~InSection(r)') => ~lockFile')
          /\ ((StartUpInSection /\ ~StartUpInSection') => ~lockFile')]_vars
    /\ [](lockFile => NumHolders > 0)
    /\ (lockFile ~> ~lockFile)

\* the lock is free after a call whose write failed and a call whose update
\* function threw
C6_Witness ==
    \E r1, r2 \in Reqs :
        /\ Acquired(r1) /\ req[r1].error = "io" /\ ~req[r1].committed
        /\ Acquired(r2) /\ req[r2].error = "insufficient"
        /\ ~lockFile

\* C7: a buy request that arrives while the state is not ACTIVE is answered
\* 503 in the same step, without an attempt on the lock and without a change
\* to the ledger, the log or the lock file.
C7_InactiveRejects ==
    [][\A r \in Reqs :
         (req[r].pc = "idle" /\ req'[r].pc # "idle" /\ serverState # "ACTIVE") =>
            /\ req'[r].pc = "done"
            /\ req'[r].status = 503
            /\ ~Acquired(r)'
            /\ UNCHANGED <<assetsFile, transactionsFile, lockFile>>]_vars

\* a well-formed buy of the store's product, in stock, answered 503 by a
\* CONFIGURED store
C7_Witness ==
    \E r \in Reqs :
        /\ serverState = "CONFIGURED"
        /\ req[r].status = 503
        /\ req[r].product = DemoProductName
        /\ req[r].qty = 1
        /\ stockOf(assetsFile, DemoProductName) >= 1

\* the store's address in the registry
storeAddress == <<myIpAddress, PORT>>

\* C8: the state is ACTIVE only when the registry has answered the store's
\* registration request with success (and so has persisted its record).
C8_ActiveAfterAck ==
    serverState = "ACTIVE" =>
        /\ call["store"].pc = "done"
        /\ call["store"].status = 200
        /\ findIndex(loadMarkets(readJSON(marketsFile)), storeAddress) > 0

C8_Witness ==
    /\ serverState = "ACTIVE"
    /\ call["store"].status = 200

\* the store's registration request was not answered with success
FailedAttempt ==
    \/ call["store"].pc = "unreachable"
    \/ call["store"].pc = "done" /\ call["store"].status # 200

\* C9: once the initial registration attempt has failed, no other request is
\* sent, the state is and stays CONFIGURED, the sync timer is never set, no
\* sync runs, and every buy that arrives is answered 503.
C9_FailedRegistrationIsTerminal ==
    /\ [][FailedAttempt =>
            /\ call'["store"] = call["store"]
            /\ serverState' = "CONFIGURED"
            /\ ~syncTimer'
            /\ \A r \in Reqs :
                  (req[r].pc = "idle" /\ req'[r].pc # "idle") =>
                      req'[r].pc = "done" /\ req'[r].status = 503]_vars
    /\ [](FailedAttempt =>
            /\ serverState = "CONFIGURED"
            /\ ~syncTimer
            /\ initPc \in {"registering", "registerFailed"})

\* the failure has been delivered and a well-formed buy was answered 503
C9_Witness ==
    /\ initPc = "registerFailed"
    /\ \E r \in Reqs :
          /\ req[r].status = 503
          /\ req[r].product = DemoProductName
          /\ req[r].qty = 1

\* C10: the registration request the store sends, handled by a reachable
\* registry whose storage works, is answered with success, leaves the store's
\* record ONLINE in the directory, and the store does not end with a failed
\* registration.
C10_RegistrationAcknowledged ==
    /\ call["store"].pc = "done" =>
          /\ call["store"].status = 200
          /\ LET markets == loadMarkets(readJSON(marketsFile))
                 i == findIndex(markets, storeAddress)
             IN  i > 0 /\ markets[i].status = "ONLINE"
    /\ initPc = "registerFailed" => call["store"].pc = "unreachable"

(***************************************************************************)
(* Properties of the registry                                              *)
(***************************************************************************)
\* the persisted directory: the records of markets.json
directory == IF Exists(marketsFile) THEN marketsFile[1] ELSE <<>>

\* the request of caller c has been acknowledged
Acked(c) == call[c].pc = "done" /\ call[c].status = 200

RecordsOf(markets, address) ==
    {i \in 1..Len(markets) : markets[i].address = address}

\* C11: in every reachable state of the registry, whatever the interleaving
\* of Register calls and health sweeps, the persisted directory holds at
\* most one record per address.
C11_OneRecordPerAddress ==
    \A i, j \in 1..Len(directory) :
        directory[i].address = directory[j].address => i = j

\* an address registered twice whose one record a sweep has marked OFFLINE
C11_Witness ==
    /\ \E c, d \in Clients :
         /\ c # d /\ Acked(c) /\ Acked(d)
         /\ addressOf(call[c].body) = addressOf(call[d].body)
         /\ \E i \in RecordsOf(directory, addressOf(call[c].body)) :
               directory[i].status = "OFFLINE"
    /\ Len(directory) = 1

\* what GET /markets answers in the current state
Listed == listMarkets(registryKind, directory)

\* the addresses the clients register
Addresses == {addressOf(body) : body \in WellFormedLegacy \cup WellFormedMulti}

\* the catalog of a request body as the registry stores it, and the catalog
\* of an entry of the listing
catalogOfBody(body) ==
    IF Has(body, "products")
    THEN mapProducts(body.products)
    ELSE << [product |-> body.product, price |-> body.priceYen] >>
catalogOf(entry) ==
    IF "products" \in DOMAIN entry
    THEN entry.products
    ELSE << [product |-> entry.product, price |-> entry.price] >>

\* the catalogs the listing of `markets` shows for an address, one per entry
ListedFor(markets, address) ==
    LET list == listMarkets(registryKind, markets) IN
    [i \in RecordsOf(list, address) |-> catalogOf(list[i])]

\* the clients whose Register for address a has been acknowledged
AckedFor(a) == {c \in Clients : Acked(c) /\ addressOf(call[c].body) = a}

\* this step acknowledges the Register of caller c
Acknowledges(c) == call[c].pc = "save" /\ call'[c].pc = "done" /\ call'[c].status = 200

\* C12: once Register(a, c2) is acknowledged for an address a that was
\* registered before, the listing shows exactly one entry for a, with catalog
\* c2, and that entry keeps its catalog in every later state until the next
\* acknowledged Register for a, health sweeps included.
C12_CatalogKept ==
    [][\A a \in Addresses :
          IF \E c \in Clients : Acknowledges(c) /\ addressOf(call[c].body) = a
          THEN \A c \in Clients :
                  (/\ Acknowledges(c) /\ addressOf(call[c].body) = a
                   /\ AckedFor(a) # {}) =>
                     LET shown == ListedFor(directory', a) IN
                     /\ Cardinality(DOMAIN shown) = 1
                     /\ \A i \in DOMAIN shown : shown[i] = catalogOfBody(call[c].body)
          ELSE Cardinality(AckedFor(a)) >= 2 =>
                  ListedFor(directory', a) = ListedFor(directory, a)]_vars

\* C13: once Register for address a has been acknowledged, a is present in
\* the persisted directory and in the listing in every later state, whatever
\* the interleaving of later Register calls and health sweeps.
C13_NeverDeleted ==
    \A c \in Clients :
        Acked(c) =>
            /\ RecordsOf(directory, addressOf(call[c].body)) # {}
            /\ RecordsOf(Listed, addressOf(call[c].body)) # {}

\* C14: every address GET /markets returns is the address of an acknowledged
\* Register, and the entries it returns are, one for one, the address,
\* catalog and status of the records of the persisted directory.
C14_ListReflectsDirectory ==
    listing.status = 200 =>
        /\ \A i \in 1..Len(listing.data) :
              \E c \in Callers :
                  Acked(c) /\ addressOf(call[c].body) = listing.data[i].address
        /\ Len(listing.data) = Len(directory)
        /\ \A i \in 1..Len(listing.data) :
              /\ listing.data[i].address = directory[i].address
              /\ catalogOf(listing.data[i]) = catalogOf(directory[i])
              /\ listing.data[i].status = directory[i].status

\* a listing of two addresses, one of them marked OFFLINE by a sweep
C14_Witness ==
    /\ listing.status = 200
    /\ Len(listing.data) = 2
    /\ \E i \in 1..Len(listing.data) : listing.data[i].status = "OFFLINE"

\* this step is the arrival of a Register request with `body` from client c
Arrives(c, body) ==
    call[c].pc = "idle" /\ call'[c] = receive(registryKind, requestOf(body))

\* C15: a Register with an empty address part, an empty product list or a
\* product entry whose price is not a positive number is answered 400
\* (MalformedRequest) and leaves the persisted directory unchanged.
C15_MalformedRejected ==
    [][\A c \in Clients, body \in MalformedLegacy \cup MalformedMulti :
          Arrives(c, body) =>
              /\ call'[c].pc = "done"
              /\ call'[c].status = 400
              /\ marketsFile' = marketsFile]_vars

\* the legacy body and the multi-product body of the same address and the
\* same single product
SameRegistration(legacy, multi) ==
    /\ addressOf(legacy) = addressOf(multi)
    /\ Len(multi.products) = 1
    /\ multi.products[1].product = legacy.product
    /\ multi.products[1].priceYen = legacy.priceYen

\* C16: Register accepts the legacy single-product body and the
\* multi-product body alike, and for the same address and the same single
\* product both leave the same stored record.
C16_BothShapesAccepted ==
    [][\A c \in Clients, legacy \in WellFormedLegacy, multi \in WellFormedMulti :
          (/\ SameRegistration(legacy, multi)
           /\ Arrives(c, legacy) \/ Arrives(c, multi)) =>
              /\ registerRejection(registryKind, legacy) = 0
              /\ registerRejection(registryKind, multi) = 0
              /\ upsert(registryKind, directory, legacy, clock + 1)
                    = upsert(registryKind, directory, multi, clock + 1)]_vars

\* C17: when a sweep commits, every store of the sweep that did not answer
\* its probe is shown OFFLINE and every store that answered 200 is shown
\* ONLINE, whatever status the directory showed for it before; so a store
\* unreachable during one sweep and reachable during the next is OFFLINE
\* after the first and ONLINE after the second.
C17_SweepStatus ==
    [][SweepSave =>
          /\ Len(directory') = Len(sweep.markets)
          /\ \A i \in 1..Len(sweep.markets) :
                /\ directory'[i].address = sweep.markets[i].address
                /\ sweep.health[i] = 0 => directory'[i].status = "OFFLINE"
                /\ sweep.health[i] = 200 => directory'[i].status = "ONLINE"]_vars

\* a sweep has just committed ONLINE for a store that an earlier sweep had
\* committed OFFLINE
C17_Witness ==
    /\ sweep.pc = "idle"
    /\ \E i \in 1..Len(directory) :
          directory[i].address \in sweep.recovered /\ directory[i].status = "ONLINE"

\* C18: a sweep writes markets.json once, when every one of its probes has
\* returned, and then with the status of every probe; before that, and when
\* the registry dies during the sweep, the sweep leaves markets.json as it
\* was.
C18_SweepCommitsOnce ==
    [][/\ (sweep.pc \in {"load", "probe"} /\ sweep'.pc # "save") =>
             (marketsFile' = marketsFile \/ \E c \in Callers : Acknowledges(c))
       /\ (sweep.pc = "probe" /\ sweep'.pc = "save") =>
             /\ marketsFile' = marketsFile
             /\ \A i \in 1..Len(sweep'.health) : sweep'.health[i] # -1
       /\ SweepSave =>
             /\ sweep'.pc = "idle"
             /\ \A i \in 1..Len(sweep.markets) :
                   /\ sweep.health[i] # -1
                   /\ directory'[i].status
                         = IF sweep.health[i] = 200 THEN "ONLINE" ELSE "OFFLINE"
       /\ RegistryCrash => marketsFile' = marketsFile]_vars

\* a sweep in progress: one probe has failed, another is pending, and the
\* directory still shows the store of the failed probe ONLINE
C18_Witness ==
    /\ sweep.pc = "probe"
    /\ \E i, j \in 1..Len(sweep.markets) :
          /\ sweep.health[i] = 0
          /\ sweep.health[j] = -1
          /\ \E k \in RecordsOf(directory, sweep.markets[i].address) :
                directory[k].status = "ONLINE"

(***************************************************************************)
(* Properties of the purchase handler's answers                            *)
(***************************************************************************)
\* C19: a buy that fails with LockContention, ProductMismatch or
\* InsufficientInventory is answered with a conflict response (409), not
\* with an internal-failure response, and its ledger mutation is not
\* persisted.
C19_ConflictResponses ==
    \A r \in Reqs :
        (req[r].pc = "done" /\ req[r].error \in {"locked", "mismatch", "insufficient"}) =>
            /\ req[r].status = 409
            /\ ~req[r].committed

\* the quantity of the body is a positive integer
PositiveInteger(body) ==
    body.qtyType = "number" /\ body.num > 0 /\ body.num % body.den = 0

\* C20: on an ACTIVE store, a buy whose product name is missing or whose
\* quantity is not a positive integer (zero, negative, not a number, or a
\* positive number that is not an integer) is answered 400
\* (MalformedRequest) by the checks that precede processPurchase and its
\* lock attempt.
C20_MalformedBuyRejected ==
    (/\ probe.pc = "done"
     /\ probe.state = "ACTIVE"
     /\ probe.body.product = "" \/ ~PositiveInteger(probe.body)) =>
        probe.verdict = 400

(***************************************************************************)
(* The transaction log                                                     *)
(***************************************************************************)
\* the content of transactions.json, empty while the file is missing
transactionLog == IF Exists(transactionsFile) THEN transactionsFile[1] ELSE <<>>

\* no purchase is between its arrival and its answer
NoPurchaseInFlight == \A r \in Reqs : req[r].pc \in {"idle", "done"}

\* the positions of the log that hold a given record
PositionsOf(logged, record) == {i \in 1..Len(logged) : logged[i] = record}

\* C21: whenever no purchase is in flight, the log holds exactly one record
\* for each buy answered 200, carrying that buy's product, qty and price, and
\* no record of a buy that failed, for every interleaving of the buys.
C21_OneRecordPerSuccess ==
    NoPurchaseInFlight =>
        /\ \A r \in Reqs :
              req[r].status = 200 =>
                 Cardinality(PositionsOf(transactionLog,
                                         transactionOf(req[r], myProduct[1]))) = 1
        /\ \A i \in 1..Len(transactionLog) :
              \E r \in Reqs :
                 /\ req[r].status = 200
                 /\ transactionLog[i] = transactionOf(req[r], myProduct[1])

\* C22: defineProduct(name, price) on a ledger with procurementPts = P leaves
\* the inventory as the single entry {name, q} with q = floor(P/price), that
\* is q*price <= P < (q+1)*price, and procurementPts = P - q*price, hence
\* 0 <= procurementPts < price; nothing else of the ledger changes; P = 100000
\* and price = 100 give q = 1000 and procurementPts 0.
C22_DefineArithmetic ==
    probe.pc = "defined" =>
        LET P == probe.assets.procurementPts
            price == probe.priceYen
            after == probe.result[1]
        IN  /\ Len(after.inventory) = 1
            /\ after.inventory[1].product = probe.name
            /\ after.inventory[1].qty * price <= P
            /\ P < (after.inventory[1].qty + 1) * price
            /\ after.procurementPts = P - after.inventory[1].qty * price
            /\ 0 <= after.procurementPts /\ after.procurementPts < price
            /\ after = [probe.assets EXCEPT !.procurementPts = after.procurementPts,
                                            !.inventory = after.inventory]
            /\ (P = 100000 /\ price = 100) =>
                  after.inventory[1].qty = 1000 /\ after.procurementPts = 0

\* the claim's example, on a ledger that had another inventory before
C22_Witness ==
    /\ probe.pc = "defined"
    /\ probe.assets.procurementPts = 100000
    /\ probe.priceYen = 100
    /\ probe.assets.inventory # <<>>
    /\ probe.result[1].inventory = <<[product |-> DemoProductName, qty |-> 1000]>>
    /\ probe.result[1].procurementPts = 0

\* the fields of a record or of a listing entry that hold its catalog
CatalogFields == IF registryKind = "single" THEN {"product", "price"} ELSE {"products"}

\* C23: List answers with one entry per record of the persisted directory, in
\* the order of the directory; an entry has the record's catalog, its address
\* and its status and no other field (no createdAt, no updatedAt); every
\* persisted record has a catalog and a status, so that no record is dropped
\* and the UNKNOWN of a record without status is never needed.
C23_ListProjection ==
    /\ \A i \in 1..Len(directory) :
          /\ CatalogFields \cup {"address", "status"} \subseteq DOMAIN directory[i]
          /\ directory[i].status \in {"ONLINE", "OFFLINE"}
    /\ listing.status = 200 =>
          /\ DOMAIN listing.data = DOMAIN directory
          /\ \A i \in 1..Len(directory) :
                /\ DOMAIN listing.data[i] = CatalogFields \cup {"address", "status"}
                /\ \A f \in DOMAIN listing.data[i] :
                      listing.data[i][f] = directory[i][f]

\* a listing of two records that both carry createdAt and updatedAt
C23_Witness ==
    /\ listing.status = 200
    /\ Len(listing.data) = 2
    /\ \A i \in 1..Len(directory) :
          /\ {"createdAt", "updatedAt"} \subseteq DOMAIN directory[i]
          /\ {"createdAt", "updatedAt"} \cap DOMAIN listing.data[i] = {}

\* the content of a directory: address, catalog and status of each record, in
\* order, without the timestamps
contentOf(markets) ==
    [i \in 1..Len(markets) |->
        [address |-> markets[i].address, catalog |-> catalogOf(markets[i]),
         status |-> markets[i].status]]

\* the bodies the running registry accepts
ValidRegisters == {body \in RegisterInputs : registerRejection(registryKind, body) = 0}

\* C24: from every reachable directory, a valid Register applied twice in a
\* row leaves the same addresses, each with the same catalog and the same
\* status, as the same Register applied once.
C24_RegisterIdempotent ==
    \A body \in ValidRegisters :
        LET once == upsert(registryKind, directory, body, clock + 1)
            twice == upsert(registryKind, once, body, clock + 2)
        IN  contentOf(twice) = contentOf(once)

\* two clients have sent the same Register one after the other: the
\* directory holds the one record the first left, rewritten by the second
C24_Witness ==
    \E c1, c2 \in Clients :
        /\ c1 # c2
        /\ Acked(c1) /\ Acked(c2)
        /\ call[c1].body = call[c2].body
        /\ Len(directory) = 1
        /\ "createdAt" \notin DOMAIN directory[1]
        /\ contentOf(directory)
              = contentOf(upsert(registryKind, <<>>, call[c1].body, 0))

(***************************************************************************)
(* The lifecycle of the store                                              *)
(***************************************************************************)
\* C25 as stated: the lifecycle state is always INIT, CONFIGURED or ACTIVE,
\* it changes only from INIT to CONFIGURED and from CONFIGURED to ACTIVE, and
\* ACTIVE never changes.
C25_ThreeStates ==
    /\ [](serverState \in {"INIT", "CONFIGURED", "ACTIVE"})
    /\ [][serverState' # serverState =>
             <<serverState, serverState'>>
                \in {<<"INIT", "CONFIGURED">>, <<"CONFIGURED", "ACTIVE">>}]_vars

\* C25, amended: the lifecycle state is INIT, CONFIGURED, REGISTERED or
\* ACTIVE and changes only INIT -> CONFIGURED -> REGISTERED -> ACTIVE;
\* REGISTERED lasts only while the continuation that sets ACTIVE is pending,
\* so the next step of the store leaves it for ACTIVE and no request or timer
\* runs in it; once ACTIVE the state never changes again.
C25_Lifecycle ==
    /\ [](/\ serverState \in ServerStates
          /\ serverState = "REGISTERED" <=> MicrotaskPending)
    /\ [][/\ serverState' # serverState =>
                <<serverState, serverState'>>
                   \in {<<"INIT", "CONFIGURED">>, <<"CONFIGURED", "REGISTERED">>,
                        <<"REGISTERED", "ACTIVE">>}
          /\ (serverState = "REGISTERED"
              /\ <<storeFiles, storeProc, req>>' # <<storeFiles, storeProc, req>>) =>
                 serverState' = "ACTIVE"
          /\ serverState = "ACTIVE" => serverState' = "ACTIVE"]_vars

\* an ACTIVE store whose sync timer runs and that has answered every buy
C25_Witness ==
    /\ serverState = "ACTIVE"
    /\ syncTimer
    /\ \A r \in Reqs : req[r].pc = "done"

(***************************************************************************)
(* The persisted ledger                                                    *)
(***************************************************************************)
\* C26: over every step of the store (start-up, defineProduct, buys that
\* succeed or fail, storage read failures) a ledger that was persisted stays
\* persisted and its capitalYen does not decrease.
C26_CapitalNeverDecreases ==
    [][Exists(assetsFile) =>
          /\ Exists(assetsFile')
          /\ assetsFile'[1].capitalYen >= assetsFile[1].capitalYen]_vars

\* C27: every step that writes assets.json is taken by a caller that is
\* inside updateAssets' critical section, the lock file existing.
C27_WritesUnderLock ==
    [][assetsFile' # assetsFile =>
          /\ lockFile
          /\ StartUpInSection \/ Holders # {}]_vars

\* sequence s is the beginning of sequence t
IsPrefix(s, t) == Len(s) <= Len(t) /\ SubSeq(t, 1, Len(s)) = s

\* C28: the transaction log is append-only: every step leaves the records it
\* held in place, unchanged and in the same order, whatever the interleaving
\* of the purchases.
C28_LogAppendOnly ==
    [][IsPrefix(transactionLog, transactionLog')]_vars

\* the total quantity of the records of a log
RECURSIVE LoggedQty(_)
LoggedQty(logged) ==
    IF logged = <<>> THEN 0 ELSE Head(logged).qty + LoggedQty(Tail(logged))

\* request r has left updateAssets with its ledger mutation persisted
Settled(r) == req[r].committed /\ ~InSection(r)

\* C29: a record is written to the log only by a purchase whose ledger
\* mutation has been persisted and whose lock has been released; in every
\* reachable state each record of the log is the record of such a purchase,
\* no purchase has two records, and the total quantity of the log is at most
\* the total quantity of the persisted purchases and at most the stock the
\* ledger has lost since the store became ACTIVE.
C29_LogAfterCommit ==
    /\ [](/\ \A i \in 1..Len(transactionLog) :
                \E r \in Reqs :
                    /\ Settled(r)
                    /\ transactionLog[i] = transactionOf(req[r], myProduct[1])
          /\ \A i, j \in 1..Len(transactionLog) :
                transactionLog[i] = transactionLog[j] => i = j
          /\ \A r \in Reqs :
                req[r].pc \in {"logLoad", "logCreate", "logWrite"} => Settled(r)
          /\ LoggedQty(transactionLog) <= CommittedQty
          /\ Len(transactionLog) > 0 =>
                LoggedQty(transactionLog)
                   <= activeStock - stockOf(assetsFile, myProduct[1].name))
    /\ [][\A r \in Reqs :
            (req[r].pc \in {"logCreate", "logWrite"} /\ req'[r].pc # req[r].pc) =>
               /\ Settled(r)
               /\ r \notin Holders
               /\ ~lockFile \/ Holders # {}]_vars

\* one purchase is in the log while another, whose ledger mutation is
\* persisted, has not written its record yet
C29_Witness ==
    \E r1, r2 \in Reqs :
        /\ req[r1].status = 200
        /\ transactionLog = <<transactionOf(req[r1], myProduct[1])>>
        /\ req[r2].pc = "logWrite"
        /\ Settled(r2)
        /\ LoggedQty(transactionLog) < CommittedQty

(***************************************************************************)
(* defineProduct across restarts of the store                              *)
(***************************************************************************)
\* this step persists the ledger effect of defineProduct
DefineCommits == initPc = "defineCsWrite" /\ initPc' = "saveProduct"

\* the persisted ledger has had defineProduct applied: its inventory holds
\* the entry of the product (no other operation adds or removes an entry)
DefineApplied == Exists(assetsFile) /\ assetsFile[1].inventory # <<>>

\* C30: across kills and restarts of the store process the ledger effect of
\* defineProduct is applied at most once: no start-up persists it on a
\* ledger to which it has already been applied.
C30_DefineAtMostOnce ==
    [][DefineCommits => ~DefineApplied]_vars

(***************************************************************************)
(* The lock across restarts of the store                                   *)
(***************************************************************************)
\* an updateAssets call of the running process is inside its critical section
LockHeld == StartUpInSection \/ Holders # {}

\* assets.lock exists and no updateAssets call of the running process holds it
LockStuck == lockFile /\ ~LockHeld

\* this step is the kill and restart of the store process
Restarts == restarts' # restarts

\* C31: a kill of the store while an updateAssets call holds the lock leaves
\* assets.lock behind; no step of the store removes it afterwards; every
\* later updateAssets attempt fails with the lock error (a buy is answered
\* with it, a start-up that has to define the product exits), the ledger and
\* the log are not written and no purchase is answered 200.
C31_StuckLock ==
    /\ [][(Restarts /\ LockHeld) => LockStuck']_vars
    /\ [][LockStuck =>
            /\ LockStuck'
            /\ assetsFile' = assetsFile
            /\ transactionsFile' = transactionsFile
            /\ (initPc = "defineLoadAssets" /\ initPc' # initPc /\ ~Restarts) =>
                  initPc' = "exited"
            /\ \A r \in Reqs :
                  /\ req'[r].status = 200 => req[r].status = 200
                  /\ req'[r].committed = req[r].committed
                  /\ (/\ req[r].pc = "idle" /\ req'[r].pc # "idle"
                      /\ ~notActive(serverState)
                      /\ ~buyMalformed(req'[r].product, req'[r].qty)
                      /\ ~nameMismatch(req'[r].product, myProduct[1])) =>
                        req'[r].pc = "done" /\ req'[r].error = "locked"]_vars

\* the store was killed while a buy held the lock, has started again and
\* become ACTIVE, and has refused a buy for the lock that is still there
C31_Witness ==
    /\ restarts > 0
    /\ LockStuck
    /\ serverState = "ACTIVE"
    /\ \E r1, r2 \in Reqs :
          /\ req[r1].error = "reset" /\ Acquired(r1) /\ ~req[r1].committed
          /\ req[r2].error = "locked"

(***************************************************************************)
(* Storage read failures                                                   *)
(***************************************************************************)
\* the read of assets.json inside updateAssets has failed for request r
LedgerReadFailed(r) == req[r].pc = "csCreate"

\* C32: when the read of the ledger fails inside updateAssets, the purchase
\* that called it is answered with an internal error (500) and assets.json
\* keeps the content it had before the call.
C32_ReadFailureKeepsLedger ==
    [][\A r \in Reqs :
         (LedgerReadFailed(r) /\ req'[r] # req[r]) =>
            /\ req'[r].pc = "done"
            /\ req'[r].status = 500
            /\ assetsFile' = req[r].pre]_vars

(***************************************************************************)
(* The frame of the health sweep                                           *)
(***************************************************************************)
\* record `after` is record `before` but for its status
SameButStatus(before, after) ==
    /\ DOMAIN after = DOMAIN before
    /\ \A f \in DOMAIN before \ {"status"} : after[f] = before[f]

\* C33: the directory a sweep commits has the records of the snapshot the
\* sweep loaded, as many and in the same order, each with the same address,
\* catalog and timestamps; only the status of a record may differ, and a
\* record whose probe fails, again or for the first time, is kept.
C33_SweepFrame ==
    [][SweepSave =>
          /\ Len(directory') = Len(sweep.markets)
          /\ \A i \in 1..Len(sweep.markets) :
                /\ SameButStatus(sweep.markets[i], directory'[i])
                /\ directory'[i].status \in {"ONLINE", "OFFLINE"}]_vars

\* a sweep has just committed two records with their timestamps, one found
\* unreachable and one found reachable again after an earlier sweep had
\* marked it OFFLINE
C33_Witness ==
    /\ sweep.pc = "idle"
    /\ sweep.recovered # {}
    /\ Len(directory) = 2
    /\ \E i, j \in 1..Len(directory) :
          /\ directory[i].status = "OFFLINE"
          /\ directory[j].address \in sweep.recovered
          /\ directory[j].status = "ONLINE"
    /\ \A i \in 1..Len(directory) :
          {"createdAt", "updatedAt"} \subseteq DOMAIN directory[i]

(***************************************************************************)
(* The frame of a purchase                                                 *)
(***************************************************************************)
\* this step is a step of buy request r
BuyStep(r) == req'[r] # req[r]

\* ledger `after` is ledger `before` but for capitalYen and the quantity on
\* hand of the product `name`
SameButSale(before, after, name) ==
    /\ after.procurementPts = before.procurementPts
    /\ after.collection = before.collection
    /\ Len(after.inventory) = Len(before.inventory)
    /\ \A i \in 1..Len(before.inventory) :
          /\ after.inventory[i].product = before.inventory[i].product
          /\ before.inventory[i].product # name =>
                after.inventory[i].qty = before.inventory[i].qty

IsStoreRecord(market) == market.address = addressOf(storeRegisterBody)

\* C36: GET /health of the store answers 200 in every lifecycle state, so in
\* CONFIGURED, where every buy is answered 503, as in ACTIVE; a probe of a
\* sweep that gets an answer from the store gets 200, whatever the store's
\* state, and the sweep then commits the store's record as ONLINE.
C36_HealthAlways200 ==
    /\ [](/\ \A state \in ServerStates :
                healthResponse(state, myProduct).code = 200
          /\ \A body \in BuyBodies : buyVerdict("CONFIGURED", body) = 503
          /\ \A r \in Reqs :
                (req[r].pc = "done" /\ req[r].error = "inactive") =>
                   req[r].status = 503)
    /\ [][/\ \A i \in 1..Len(sweep.markets) :
                (Probing(i) /\ sweep'.health[i] \notin {-1, 0}) =>
                   /\ sweep'.health[i] = 200
                   /\ Listening
          /\ SweepSave =>
                \A i \in 1..Len(sweep.markets) :
                   sweep.health[i] = 200 => directory'[i].status = "ONLINE"]_vars

\* the store is listening in state CONFIGURED, its registration not yet
\* answered, and has refused a buy with 503; its record, which an earlier
\* sweep had marked OFFLINE, has just been marked ONLINE by a sweep
C36_Witness ==
    /\ serverState = "CONFIGURED"
    /\ Listening
    /\ \E r \in Reqs : req[r].status = 503
    /\ sweep.pc = "idle"
    /\ \E i \in 1..Len(directory) :
          /\ IsStoreRecord(directory[i])
          /\ directory[i].address \in sweep.recovered
          /\ directory[i].status = "ONLINE"
====
